---------------------------- MODULE Spec2Model ----------------------------
(***************************************************************************)
(* loaden: configuration loading with includes (src/src/loaden/config.py). *)
(*                                                                         *)
(* A YAML value is a tagged record [t, v]:                                 *)
(*   "str" / "int" / "bool" / "null"  scalars,                             *)
(*   "dict"  v is a function from string keys to values,                   *)
(*   "list"  v is a sequence of values.                                    *)
(* A document (a Python dict) is a function from string keys to values.    *)
(***************************************************************************)
EXTENDS Integers, Sequences, FiniteSets, TLC

VARIABLES
    files,      \* the file system: path -> [kind, doc]
    environ,    \* os.environ: variable name -> string (a partial function)
    args,       \* the arguments of the root load_config call
    frames,     \* the Python call stack of load_config activations
    exc,        \* the exception in flight ("none" when there is none)
    outcome,    \* what the root call gave its caller
    hist,       \* history of the root load (what ran, and in what order)
    pure        \* an application of deep_merge or _validate_required_keys

vars == <<files, environ, args, frames, exc, outcome, hist, pure>>

---------------------------------------------------------------------------
(* Values                                                                  *)

VStr(s)  == [t |-> "str",  v |-> s]
VInt(n)  == [t |-> "int",  v |-> n]
VBool(b) == [t |-> "bool", v |-> b]
VNull    == [t |-> "null", v |-> 0]
VDict(m) == [t |-> "dict", v |-> m]
VList(s) == [t |-> "list", v |-> s]

\* the empty dict {}
EmptyDoc == <<>>

\* isinstance(x, dict) / isinstance(x, str)
IsDict(x) == x.t = "dict"
IsStr(x)  == x.t = "str"

\* a dict literal with at most one entry; Absent stands for "key not written"
Absent == [t |-> "absent", v |-> 0]
Opt(key, val) == IF val = Absent THEN EmptyDoc ELSE key :> val

---------------------------------------------------------------------------
(* deep_merge                                                              *)

RECURSIVE deep_merge(_, _)
RECURSIVE MergeLoop(_, _, _)

\* one iteration of `for key, value in overlay.items()` on `result`
MergeItem(result, key, value) ==
    IF key \in DOMAIN result /\ IsDict(result[key]) /\ IsDict(value)
    THEN [k \in DOMAIN result |->
            IF k = key THEN VDict(deep_merge(result[key].v, value.v)) ELSE result[k]]
    ELSE [k \in DOMAIN result \cup {key} |->
            IF k = key THEN value ELSE result[k]]

\* the loop over the overlay's items still to visit
MergeLoop(result, overlay, todo) ==
    IF todo = {} THEN result
    ELSE LET key == CHOOSE k \in todo : TRUE
         IN  MergeLoop(MergeItem(result, key, overlay[key]), overlay, todo \ {key})

\* a plausible bug: dict.update(), which replaces nested mappings wholesale
ShallowMerge(base, overlay) ==
    [k \in DOMAIN base \cup DOMAIN overlay |->
        IF k \in DOMAIN overlay THEN overlay[k] ELSE base[k]]

deep_merge(base, overlay) ==
    MergeLoop(base, overlay, DOMAIN overlay)

---------------------------------------------------------------------------
(* _validate_required_keys                                                 *)

\* A key path is a Python string.  It is modelled as the sequence of its
\* lexemes: maximal dot-free runs of characters (names) and the dots between
\* them, so that "database.host" is <<"database", ".", "host">>.
DOT == "."

\* Two names are never adjacent in such a sequence.

RECURSIVE Split(_)
\* key_path.split("."): the strings between the dots, "" where there is none
Split(p) ==
    IF p = <<>> THEN <<"">>
    ELSE IF p[1] = DOT THEN <<"">> \o Split(Tail(p))
    ELSE IF Len(p) = 1 THEN <<p[1]>>
    ELSE <<p[1]>> \o Tail(Split(Tail(p)))

RECURSIVE WalkMissing(_, _, _)
\* the inner loop: TRUE when it reaches missing.append(key_path)
WalkMissing(current, parts, i) ==
    IF i > Len(parts) THEN FALSE
    ELSE IF ~IsDict(current) \/ parts[i] \notin DOMAIN current.v THEN TRUE
    ELSE WalkMissing(current.v[parts[i]], parts, i + 1)

\* a plausible bug: only the first segment is looked up
WalkFirstOnly(config, key_path) ==
    Split(key_path)[1] \notin DOMAIN config

IsMissing(config, key_path) ==
    WalkMissing(VDict(config), Split(key_path), 1)

RECURSIVE MissingKeys(_, _)
\* the list `missing` after the outer loop
MissingKeys(config, required_keys) ==
    IF required_keys = <<>> THEN <<>>
    ELSE (IF IsMissing(config, Head(required_keys))
          THEN <<Head(required_keys)>> ELSE <<>>)
         \o MissingKeys(config, Tail(required_keys))

---------------------------------------------------------------------------
(* The file system and the process environment                             *)

FileNames == {"a", "b", "c", "d"}

\* what a path names: nothing, or a file whose text yaml.safe_load
\* rejects, loads as a non-mapping, loads as None, or loads as a mapping
Missing      == [kind |-> "missing", doc |-> EmptyDoc]
Garbled      == [kind |-> "garbled", doc |-> EmptyDoc]
NonMapping   == [kind |-> "list",    doc |-> EmptyDoc]
EmptyFile    == [kind |-> "empty",   doc |-> EmptyDoc]
Mapping(doc) == [kind |-> "dict",    doc |-> doc]

\* Path.resolve(): "a_link" is a symbolic link to "a"
Resolve(p) == IF p = "a_link" THEN "a" ELSE p

\* Path.exists()
Exists(p) == Resolve(p) \in FileNames /\ files[Resolve(p)].kind # "missing"

\* str(value) for the scalars of an env section
Digit == <<"1", "2", "3", "4", "5", "6", "7", "8", "9">>
PyStr(value) ==
    CASE value.t = "str"  -> value.v
      [] value.t = "int"  -> IF value.v = 0 THEN "0" ELSE Digit[value.v]
      [] value.t = "bool" -> IF value.v THEN "True" ELSE "False"
      [] OTHER            -> "None"

---------------------------------------------------------------------------
(* load_config: the activation records                                     *)

\* required_keys: None, or a list of key paths
ReqNone     == [some |-> FALSE, keys |-> <<>>]
ReqList(ks) == [some |-> TRUE,  keys |-> ks]

\* the error kinds; the first five are those load_config documents
FileNotFoundError   == "FileNotFoundError"
YAMLError           == "YAMLError"
InvalidShape        == "ValueError: Invalid config file"
CircularInclude     == "ValueError: Circular include detected"
MissingRequiredKeys == "ValueError: missing required keys"
TypeError           == "TypeError"
AttributeError      == "AttributeError"

DocumentedErrors ==
    {FileNotFoundError, YAMLError, InvalidShape, CircularInclude, MissingRequiredKeys}

\* a new activation of load_config(config_path, required_keys, _include_stack)
NewFrame(config_path, required_keys, include_stack) ==
    [ config_path   |-> config_path,
      required_keys |-> required_keys,
      include_stack |-> include_stack,
      stack0        |-> include_stack,  \* history: the stack as handed over
      resolved_path |-> Resolve(config_path),
      config        |-> EmptyDoc,
      includes      |-> <<>>,
      i             |-> 1,
      base_config   |-> EmptyDoc,
      got           |-> <<>>,       \* history: what each include returned
      pc            |-> "enter" ]

Top == frames[Len(frames)]
Callers == SubSeq(frames, 1, Len(frames) - 1)
SetTop(f) == [frames EXCEPT ![Len(frames)] = f]
Running(pc) == pure.op = "none" /\ frames # <<>> /\ Top.pc = pc

\* resolved_path in _include_stack
OnVisited(resolved_path, include_stack) ==
    resolved_path \in {hist.loaded[n] : n \in 1..Len(hist.loaded)}
OnNothing(resolved_path, include_stack) == FALSE

OnStack(resolved_path, include_stack) ==
    \E n \in 1..Len(include_stack) : include_stack[n] = resolved_path

\* _include_stack.remove(resolved_path): the first occurrence goes
KeepStack(stack, p) == stack

RECURSIVE Remove(_, _)
Remove(stack, p) ==
    IF stack = <<>> THEN <<>>
    ELSE IF Head(stack) = p THEN Tail(stack)
    ELSE <<Head(stack)>> \o Remove(Tail(stack), p)

\* config.pop("loaden_include"): the dict without the key
KeepInclude(config) == config

PopInclude(config) ==
    [k \in DOMAIN config \ {"loaden_include"} |-> config[k]]

\* the list the for loop walks: a bare string becomes a one-element list
Normalize(includes) ==
    IF IsStr(includes) THEN <<includes>> ELSE includes.v

\* line 108: can `for include_path in includes` iterate?
Iterable(includes) == includes.t \in {"str", "list"}

\* line 115, the fold step
FoldRight(base_config, included) == deep_merge(included, base_config)

FoldStep(base_config, included) == deep_merge(base_config, included)

\* line 117
OwnUnder(base_config, config) == deep_merge(config, base_config)

MergeOwn(base_config, config) == deep_merge(base_config, config)

\* line 122
AlwaysRoot(include_stack) == TRUE

IsRootCall(include_stack) == Len(include_stack) = 0

\* a plausible bug: the required keys are validated before the environment
\* is seeded
ValidateFirst(pc) ==
    CASE pc = "finally"  -> "validate"
      [] pc = "validate" -> "env"
      [] pc = "env"      -> "return"

\* lines 124-133: in the root call the env section is handled, then the
\* required keys, then the document is returned
RootOrder(pc) ==
    CASE pc = "finally"  -> "env"
      [] pc = "env"      -> "validate"
      [] pc = "validate" -> "return"

\* lines 126-128: os.environ after the loop over the env section
SeedOverwrite(env, section) ==
    [x \in DOMAIN env \cup DOMAIN section |->
        IF x \in DOMAIN section THEN PyStr(section[x]) ELSE env[x]]

SeedEnviron(env, section) ==
    [x \in DOMAIN env \cup DOMAIN section |->
        IF x \in DOMAIN env THEN env[x] ELSE PyStr(section[x])]

\* history: which activation raised, and the files of the calls below it
ThisRaise(e) ==
    [kind |-> e, path |-> Top.resolved_path,
     chain |-> [n \in 1..(Len(frames) - 1) |-> frames[n].resolved_path]]

\* history: the top activation leaves, by return or by an exception, with
\* its include stack holding `stack`
ThisExit(how, stack) ==
    [how |-> how, path |-> Top.resolved_path, stack0 |-> Top.stack0, stack |-> stack]

\* an exception leaves the top activation: the caller, which is inside its
\* try block at line 110, goes to its finally clause; with no caller the
\* exception reaches whoever called load_config
Propagate(e) ==
    IF Len(frames) = 1
    THEN /\ frames' = <<>>
         /\ exc' = "none"
         /\ outcome' = [kind |-> e, value |-> EmptyDoc]
    ELSE /\ frames' = [Callers EXCEPT ![Len(frames) - 1].pc = "finally"]
         /\ exc' = e
         /\ UNCHANGED outcome

\* raise outside the try block (lines 75, 86, and the root-only part)
RaiseOutsideTry(e) ==
    /\ hist' = [hist EXCEPT !.raised = ThisRaise(e),
                            !.exit = ThisExit("raise", Top.include_stack)]
    /\ Propagate(e)

\* raise inside the try block: the finally clause runs first
RaiseInTry(e) ==
    /\ frames' = SetTop([Top EXCEPT !.pc = "finally"])
    /\ exc' = e
    /\ hist' = [hist EXCEPT !.raised = ThisRaise(e)]
    /\ UNCHANGED outcome

---------------------------------------------------------------------------
(* load_config: the steps                                                  *)

\* the caller invokes load_config(config_path, required_keys)
Call ==
    /\ pure.op = "none"
    /\ outcome.kind = "idle"
    /\ frames' = <<NewFrame(args.config_path, args.required_keys, <<>>)>>
    /\ outcome' = [outcome EXCEPT !.kind = "running"]
    /\ UNCHANGED <<files, environ, args, exc, hist, pure>>

\* lines 73-88: existence check, cycle check, push
Enter ==
    /\ Running("enter")
    /\ IF ~Exists(Top.config_path)
       THEN RaiseOutsideTry(FileNotFoundError)
       ELSE IF OnStack(Top.resolved_path, Top.include_stack)
       THEN RaiseOutsideTry(CircularInclude)
       ELSE /\ frames' = SetTop([Top EXCEPT
                            !.include_stack = Append(@, Top.resolved_path),
                            !.pc = "parse"])
            /\ hist' = [hist EXCEPT !.loaded = Append(@, Top.resolved_path)]
            /\ UNCHANGED <<exc, outcome>>
    /\ UNCHANGED <<files, environ, args, pure>>

\* lines 91-100: read and parse the file
Parse ==
    /\ Running("parse")
    /\ LET file == files[Top.resolved_path]
       IN  CASE file.kind = "garbled" -> RaiseInTry(YAMLError)
             [] file.kind = "list"    -> RaiseInTry(InvalidShape)
             [] OTHER ->
                  /\ frames' = SetTop([Top EXCEPT !.config = file.doc,
                                                  !.pc = "includes"])
                  /\ UNCHANGED <<exc, outcome, hist>>
    /\ UNCHANGED <<files, environ, args, pure>>

\* lines 102-107: take the include directive out of the document
Includes ==
    /\ Running("includes")
    /\ IF "loaden_include" \in DOMAIN Top.config
       THEN LET includes == Top.config["loaden_include"]
            IN  IF Iterable(includes)
                THEN /\ frames' = SetTop([Top EXCEPT
                                     !.config = PopInclude(@),
                                     !.includes = Normalize(includes),
                                     !.base_config = EmptyDoc,
                                     !.pc = "loop"])
                     /\ UNCHANGED <<exc, outcome, hist>>
                ELSE RaiseInTry(TypeError)
       ELSE /\ frames' = SetTop([Top EXCEPT !.pc = "finally"])
            /\ UNCHANGED <<exc, outcome, hist>>
    /\ UNCHANGED <<files, environ, args, pure>>

\* lines 108-114: the next include is loaded by a recursive call
Include ==
    /\ Running("loop")
    /\ Top.i <= Len(Top.includes)
    /\ LET include_path == Top.includes[Top.i]
       IN  IF IsStr(include_path)
           THEN /\ frames' = Append(SetTop([Top EXCEPT !.pc = "call"]),
                                NewFrame(include_path.v, ReqNone, Top.include_stack))
                /\ UNCHANGED <<exc, outcome, hist>>
           ELSE RaiseInTry(TypeError)
    /\ UNCHANGED <<files, environ, args, pure>>

\* line 117: the file's own keys go over what it included
Merge ==
    /\ Running("loop")
    /\ Top.i > Len(Top.includes)
    /\ frames' = SetTop([Top EXCEPT !.config = MergeOwn(Top.base_config, @),
                                    !.pc = "finally"])
    /\ UNCHANGED <<files, environ, args, exc, outcome, hist, pure>>

\* lines 118-122: the finally clause, then the exception goes on or
\* is_root_call is computed
Finally ==
    /\ Running("finally")
    /\ LET stack == IF OnStack(Top.resolved_path, Top.include_stack)
                    THEN Remove(Top.include_stack, Top.resolved_path)
                    ELSE Top.include_stack
       IN  IF exc # "none"
           THEN /\ Propagate(exc)
                /\ hist' = [hist EXCEPT !.exit = ThisExit("raise", stack)]
           ELSE /\ frames' = SetTop([Top EXCEPT
                                !.include_stack = stack,
                                !.pc = IF IsRootCall(stack) THEN RootOrder("finally")
                                                            ELSE "return"])
                /\ UNCHANGED <<exc, outcome, hist>>
    /\ UNCHANGED <<files, environ, args, pure>>

\* lines 125-128: seed the environment from the env section
SeedEnv ==
    /\ Running("env")
    /\ IF "env" \in DOMAIN Top.config
       THEN IF IsDict(Top.config["env"])
            THEN /\ environ' = SeedEnviron(environ, Top.config["env"].v)
                 /\ frames' = SetTop([Top EXCEPT !.pc = RootOrder("env")])
                 /\ hist' = [hist EXCEPT !.seeded = @ + 1]
                 /\ UNCHANGED <<exc, outcome>>
            ELSE /\ RaiseOutsideTry(AttributeError)
                 /\ UNCHANGED environ
       ELSE /\ frames' = SetTop([Top EXCEPT !.pc = RootOrder("env")])
            /\ UNCHANGED <<environ, exc, outcome, hist>>
    /\ UNCHANGED <<files, args, pure>>

\* lines 130-131 (and 162-165): validate the required keys
Validate ==
    /\ Running("validate")
    /\ IF Top.required_keys.some /\ Top.required_keys.keys # <<>>
       THEN IF MissingKeys(Top.config, Top.required_keys.keys) # <<>>
            THEN /\ hist' = [hist EXCEPT !.raised = ThisRaise(MissingRequiredKeys),
                                         !.exit = ThisExit("raise", Top.include_stack),
                                         !.final = Top.config,
                                         !.validated = @ + 1]
                 /\ Propagate(MissingRequiredKeys)
            ELSE /\ frames' = SetTop([Top EXCEPT !.pc = RootOrder("validate")])
                 /\ hist' = [hist EXCEPT !.final = Top.config,
                                         !.validated = @ + 1]
                 /\ UNCHANGED <<exc, outcome>>
       ELSE /\ frames' = SetTop([Top EXCEPT !.pc = RootOrder("validate")])
            /\ UNCHANGED <<exc, outcome, hist>>
    /\ UNCHANGED <<files, environ, args, pure>>

\* line 133, and in the caller line 115: the result is folded into base_config
Return ==
    /\ Running("return")
    /\ IF Len(frames) = 1
       THEN /\ frames' = <<>>
            /\ outcome' = [kind |-> "returned", value |-> Top.config]
       ELSE /\ frames' = [Callers EXCEPT ![Len(frames) - 1] =
                            [@ EXCEPT !.base_config = FoldStep(@, Top.config),
                                      !.got = Append(@, [path |-> Top.config_path,
                                                        doc  |-> Top.config]),
                                      !.i = @ + 1,
                                      !.pc = "loop"]]
            /\ UNCHANGED outcome
    /\ hist' = [hist EXCEPT !.exit = ThisExit("return", Top.include_stack)]
    /\ UNCHANGED <<files, environ, args, exc, pure>>

---------------------------------------------------------------------------
(* Inputs                                                                  *)

\* the longest include list a file of the model writes
MaxIncludes == 2
\* the nesting depth of the documents handed to the pure functions
MaxDepth == 2
\* the longest required_keys list handed to the validator
MaxKeys == 2

SeqsUpTo(S, n) == UNION {[1..m -> S] : m \in 0..n}
StrsOf(T) == {VStr(p) : p \in T}

\* a document with the keys k, env and loaden_include, each optional
MkDoc(k, e, inc) == Opt("k", k) @@ Opt("env", e) @@ Opt("loaden_include", inc)

\* what file f may say for k: nothing, its own name, or a mapping with
\* its own name as the key
KVals(f) == {Absent, VStr(f), VDict(f :> VStr(f))}

FileSystem(A, B, C, D) == ("a" :> A) @@ ("b" :> B) @@ ("c" :> C) @@ ("d" :> D)

\* include graphs over three files: the root lists up to MaxIncludes
\* files, the others name at most one
GraphFiles ==
    LET T == {"a", "b", "c"}
        RootInc == {Absent} \cup StrsOf(T)
                     \cup {VList(l) : l \in SeqsUpTo(StrsOf(T), MaxIncludes)}
        Inc == {Absent} \cup StrsOf(T)
    IN  { FileSystem(Mapping(MkDoc(ka, Absent, ia)),
                     Mapping(MkDoc(kb, Absent, ib)),
                     Mapping(MkDoc(kc, Absent, ic)),
                     Missing) :
            ka \in KVals("a"), ia \in RootInc,
            kb \in KVals("b"), ib \in Inc,
            kc \in KVals("c"), ic \in Inc }

\* the diamond a -> [b, c], b -> d, c -> d (c may also list b after d, and
\* d may close a cycle back to a)
DiamondFiles ==
    { FileSystem(Mapping(MkDoc(ka, Absent, VList(<<VStr("b"), VStr("c")>>))),
                 Mapping(MkDoc(kb, Absent, VStr("d"))),
                 Mapping(MkDoc(kc, Absent, ic)),
                 Mapping(MkDoc(kd, Absent, id))) :
        ka \in KVals("a"), kb \in KVals("b"),
        kc \in KVals("c"), ic \in {VStr("d"), VList(<<VStr("d"), VStr("b")>>)},
        kd \in KVals("d"), id \in {Absent, VStr("a")} }

\* a root with an env section and one include, of every kind of file
EnvFiles ==
    LET EnvA == {Absent, VDict("X" :> VStr("a")),
                 VDict(("X" :> VInt(1)) @@ ("Y" :> VBool(TRUE))), VStr("bad")}
        EnvB == {Absent, VDict("X" :> VStr("b")), VDict("Y" :> VNull)}
        IncA == {Absent, VStr("b"), VStr("a_link"), VInt(5),
                 VList(<<VStr("b"), VInt(5)>>)}
        IncB == {Absent, VStr("a")}
    IN  { FileSystem(Mapping(MkDoc(ka, ea, ia)), B, Missing, Missing) :
            ka \in KVals("a"), ea \in EnvA, ia \in IncA,
            B \in {Missing, Garbled, NonMapping, EmptyFile}
                    \cup {Mapping(MkDoc(kb, eb, ib)) :
                            kb \in KVals("b"), eb \in EnvB, ib \in IncB} }

\* os.environ before the call
Environs == {<<>>, "X" :> "shell", ("X" :> "shell") @@ ("Y" :> "shell")}

\* required_keys of the root call
Requirements ==
    {ReqNone, ReqList(<<>>), ReqList(<<<<"k">>>>),
     ReqList(<<<<"k", DOT, "b">>, <<"env", DOT, "X">>>>),
     ReqList(<<<<"k", DOT, "a">>, <<"k", DOT, "b">>>>)}

NoHistory ==
    [ env0      |-> <<>>,
      loaded    |-> <<>>,
      raised    |-> [kind |-> "none", path |-> "", chain |-> <<>>],
      exit      |-> [how |-> "none", path |-> "", stack0 |-> <<>>, stack |-> <<>>],
      final     |-> EmptyDoc,
      seeded    |-> 0,
      validated |-> 0 ]

NoPure == [op |-> "none", a |-> EmptyDoc, b |-> <<>>, result |-> <<>>,
           raised |-> FALSE, pc |-> "idle"]

Init ==
    /\ \/ /\ files \in GraphFiles \cup DiamondFiles
          /\ environ = <<>>
          /\ args = [config_path |-> "a", required_keys |-> ReqNone]
       \/ /\ files \in EnvFiles
          /\ environ \in Environs
          /\ args \in [config_path : {"a"}, required_keys : Requirements]
    /\ frames = <<>>
    /\ exc = "none"
    /\ outcome = [kind |-> "idle", value |-> EmptyDoc]
    /\ hist = [NoHistory EXCEPT !.env0 = environ]
    /\ pure = NoPure

---------------------------------------------------------------------------
(* The pure functions, applied to documents of every shape                 *)

\* the non-mapping values one side writes: a string, null and a list
Scalars(tag) == {VStr(tag), VNull, VList(<<VStr(tag)>>)}

RECURSIVE Docs(_, _)
\* the documents of nesting depth d whose strings are `tag`: k holds any
\* value, m a string, both optional
Docs(tag, d) ==
    LET KV == {Absent} \cup Scalars(tag)
                \cup (IF d = 0 THEN {} ELSE {VDict(x) : x \in Docs(tag, d - 1)})
    IN  {Opt("k", k) @@ Opt("m", m) : k \in KV, m \in {Absent, VStr(tag)}}

\* required key paths: "k", "m", "x", "k.k", "k.m", "m.k", "k.k.m", "k." and ""
KeyPaths ==
    { <<"k">>, <<"m">>, <<"x">>, <<"k", DOT, "k">>, <<"k", DOT, "m">>,
      <<"m", DOT, "k">>, <<"k", DOT, "k", DOT, "m">>, <<"k", DOT>>, <<>> }

MergeInit ==
    /\ pure \in [op : {"merge"}, a : Docs("base", MaxDepth),
                 b : Docs("overlay", MaxDepth), result : {<<>>},
                 raised : {FALSE}, pc : {"call"}]
    /\ files = [f \in FileNames |-> Missing]
    /\ environ = <<>>
    /\ args = [config_path |-> "a", required_keys |-> ReqNone]
    /\ frames = <<>>
    /\ exc = "none"
    /\ outcome = [kind |-> "idle", value |-> EmptyDoc]
    /\ hist = NoHistory

\* deep_merge(a, b) runs to its return
ApplyMerge ==
    /\ pure.op = "merge" /\ pure.pc = "call"
    /\ pure' = [pure EXCEPT !.result = deep_merge(pure.a, pure.b), !.pc = "done"]
    /\ UNCHANGED <<files, environ, args, frames, exc, outcome, hist>>

MergeSpec == MergeInit /\ [][ApplyMerge]_vars

ValidateInit ==
    /\ pure \in [op : {"validate"}, a : Docs("base", MaxDepth),
                 b : SeqsUpTo(KeyPaths, MaxKeys), result : {<<>>},
                 raised : {FALSE}, pc : {"call"}]
    /\ files = [f \in FileNames |-> Missing]
    /\ environ = <<>>
    /\ args = [config_path |-> "a", required_keys |-> ReqNone]
    /\ frames = <<>>
    /\ exc = "none"
    /\ outcome = [kind |-> "idle", value |-> EmptyDoc]
    /\ hist = NoHistory

\* _validate_required_keys(a, b, path) runs to its return or its raise
ApplyValidate ==
    /\ pure.op = "validate" /\ pure.pc = "call"
    /\ LET missing == MissingKeys(pure.a, pure.b)
       IN  pure' = [pure EXCEPT !.result = missing,
                                !.raised = (missing # <<>>),
                                !.pc = "done"]
    /\ UNCHANGED <<files, environ, args, frames, exc, outcome, hist>>

ValidateSpec == ValidateInit /\ [][ApplyValidate]_vars

---------------------------------------------------------------------------
(* deep_merge on the heap: dict objects with identity                      *)

\* A dict object lives at an address of the heap (a sequence of objects). An
\* entry of an object is a scalar or list, held as a value, or a reference
\* to another dict object.
Ref(addr)  == [t |-> "ref", v |-> addr]
IsRef(x)   == x.t = "ref"

RECURSIVE Alloc(_, _)
RECURSIVE AllocItems(_, _, _, _)
\* the objects of the entries of `doc` still to build, then the object itself
AllocItems(heap, doc, todo, obj) ==
    IF todo = {} THEN [heap |-> Append(heap, obj), addr |-> Len(heap) + 1]
    ELSE LET key == CHOOSE k \in todo : TRUE
         IN  IF IsDict(doc[key])
             THEN LET sub == Alloc(heap, doc[key].v)
                  IN  AllocItems(sub.heap, doc, todo \ {key},
                                 (key :> Ref(sub.addr)) @@ obj)
             ELSE AllocItems(heap, doc, todo \ {key}, (key :> doc[key]) @@ obj)

\* the heap after the caller has built the document `doc`, and its address
Alloc(heap, doc) == AllocItems(heap, doc, DOMAIN doc, EmptyDoc)

RECURSIVE Deref(_, _)
\* the document the object at `addr` holds, nested objects included
Deref(heap, addr) ==
    [k \in DOMAIN heap[addr] |->
        IF IsRef(heap[addr][k]) THEN VDict(Deref(heap, heap[addr][k].v))
        ELSE heap[addr][k]]

\* a plausible bug: result = base, the update then writes into the input
DictAlias(heap, addr) == [heap |-> heap, addr |-> addr]

\* line 31: base.copy(), a new object with the same entries (a shallow copy)
DictCopy(heap, addr) == [heap |-> Append(heap, heap[addr]), addr |-> Len(heap) + 1]

\* result[key] = value
SetItem(heap, addr, key, value) ==
    [heap EXCEPT ![addr] = (key :> value) @@ @]

RECURSIVE HeapMerge(_, _, _)
RECURSIVE HeapMergeLoop(_, _, _, _)
\* lines 33-37: the loop over the overlay's items still to visit
HeapMergeLoop(heap, result, overlay, todo) ==
    IF todo = {} THEN [heap |-> heap, addr |-> result]
    ELSE LET key   == CHOOSE k \in todo : TRUE
             value == heap[overlay][key]
         IN  IF /\ key \in DOMAIN heap[result]
                /\ IsRef(heap[result][key])
                /\ IsRef(value)
             THEN LET sub == HeapMerge(heap, heap[result][key].v, value.v)
                  IN  HeapMergeLoop(SetItem(sub.heap, result, key, Ref(sub.addr)),
                                    result, overlay, todo \ {key})
             ELSE HeapMergeLoop(SetItem(heap, result, key, value),
                                result, overlay, todo \ {key})

\* deep_merge(base, overlay) on objects: the heap after the call and the
\* address of the object it returns
HeapMerge(heap, base, overlay) ==
    LET copy == DictCopy(heap, base)
    IN  HeapMergeLoop(copy.heap, copy.addr, overlay, DOMAIN heap[overlay])

\* the caller builds base and overlay as separate objects, or passes one
\* object as both, or passes a mapping of base as the overlay
HeapInputs ==
    LET Separate ==
            { LET A == Alloc(<<>>, a)
                  B == Alloc(A.heap, b)
              IN  [heap |-> B.heap, a |-> A.addr, b |-> B.addr] :
              a \in Docs("base", MaxDepth), b \in Docs("overlay", MaxDepth) }
        Same ==
            { LET A == Alloc(<<>>, a)
              IN  [heap |-> A.heap, a |-> A.addr, b |-> A.addr] :
              a \in Docs("base", MaxDepth) }
        Inner ==
            { LET A == Alloc(<<>>, a)
              IN  [heap |-> A.heap, a |-> A.addr, b |-> A.heap[A.addr]["k"].v] :
              a \in {d \in Docs("base", MaxDepth) :
                       "k" \in DOMAIN d /\ IsDict(d["k"])} }
    IN  Separate \cup Same \cup Inner

HeapMergeInit ==
    /\ \E in \in HeapInputs :
         pure = [op |-> "heap_merge", a |-> in.a, b |-> in.b, result |-> 0,
                 raised |-> FALSE, pc |-> "call",
                 heap |-> in.heap, heap0 |-> in.heap]
    /\ files = [f \in FileNames |-> Missing]
    /\ environ = <<>>
    /\ args = [config_path |-> "a", required_keys |-> ReqNone]
    /\ frames = <<>>
    /\ exc = "none"
    /\ outcome = [kind |-> "idle", value |-> EmptyDoc]
    /\ hist = NoHistory

\* deep_merge(a, b) runs to its return
ApplyHeapMerge ==
    /\ pure.op = "heap_merge" /\ pure.pc = "call"
    /\ LET done == HeapMerge(pure.heap, pure.a, pure.b)
       IN  pure' = [pure EXCEPT !.heap = done.heap, !.result = done.addr,
                                !.pc = "done"]
    /\ UNCHANGED <<files, environ, args, frames, exc, outcome, hist>>

HeapMergeSpec == HeapMergeInit /\ [][ApplyHeapMerge]_vars

Next ==
    \/ Call
    \/ Enter
    \/ Parse
    \/ Includes
    \/ Include
    \/ Merge
    \/ Finally
    \/ SeedEnv
    \/ Validate
    \/ Return

Spec == Init /\ [][Next]_vars

\* the interpreter always takes the next step of a running call
FairSpec == Spec /\ WF_vars(Next)

---------------------------------------------------------------------------
(* What the claims speak of                                                *)

\* own(F): the parsed content of file p without the include directive
Own(p) ==
    LET d == files[p].doc
    IN  [k \in DOMAIN d \ {"loaden_include"} |-> d[k]]

RECURSIVE IsMergeOf(_, _, _)
\* r is the merge of overlay b over base a, stated key by key
IsMergeOf(r, a, b) ==
    /\ DOMAIN r = DOMAIN a \cup DOMAIN b
    /\ \A k \in DOMAIN r :
         IF k \notin DOMAIN b THEN r[k] = a[k]
         ELSE IF k \notin DOMAIN a THEN r[k] = b[k]
         ELSE IF IsDict(a[k]) /\ IsDict(b[k])
              THEN IsDict(r[k]) /\ IsMergeOf(r[k].v, a[k].v, b[k].v)
              ELSE r[k] = b[k]

RECURSIVE FoldLeft(_, _)
\* deep_merge(...deep_merge(deep_merge(acc, d1), d2)..., dn)
FoldLeft(acc, docs) ==
    IF docs = <<>> THEN acc
    ELSE FoldLeft(deep_merge(acc, Head(docs).doc), Tail(docs))

Finished == outcome.kind \notin {"idle", "running"}
Root == Resolve(args.config_path)

\* the files a file's include directive names
IncTargets(p) ==
    LET d == files[p].doc
    IN  IF "loaden_include" \notin DOMAIN d THEN {}
        ELSE LET inc == d["loaden_include"]
             IN  IF IsStr(inc) THEN {Resolve(inc.v)}
                 ELSE IF inc.t = "list"
                 THEN {Resolve(inc.v[n].v) : n \in {m \in 1..Len(inc.v) : IsStr(inc.v[m])}}
                 ELSE {}

RECURSIVE Closure(_, _)
Closure(S, n) ==
    IF n = 0 THEN S
    ELSE Closure(S \cup UNION {IncTargets(p) : p \in S}, n - 1)

\* the files the walk from S can come to
ReachableFrom(S) == Closure(S, Cardinality(FileNames))

\* an existing file that parses to a mapping (or is empty) and whose include
\* directive, if any, is a string or a list of strings naming existing files
WellFormedFile(p) ==
    /\ files[p].kind \in {"dict", "empty"}
    /\ "loaden_include" \in DOMAIN files[p].doc =>
         LET inc == files[p].doc["loaden_include"]
         IN  /\ inc.t \in {"str", "list"}
             /\ inc.t = "list" => \A n \in 1..Len(inc.v) : IsStr(inc.v[n])
    /\ \A q \in IncTargets(p) : files[q].kind # "missing"

AllWellFormed == \A p \in ReachableFrom({Root}) : WellFormedFile(p)

\* some file the walk can come to includes itself, directly or through a chain
CycleReachable ==
    \E p \in ReachableFrom({Root}) : p \in ReachableFrom(IncTargets(p))

---------------------------------------------------------------------------
(* C1 *)

\* C1: whenever a load_config call returns, what it returns is the merge of
\* the file's own keys over the merged result of its includes, and every
\* top-level key of the file itself whose value is not a mapping has the
\* file's value in the result, whatever the includes said.
C1_OwnKeysWin ==
    Running("return") =>
        LET own == Own(Top.resolved_path)
        IN  /\ IsMergeOf(Top.config, Top.base_config, own)
            /\ \A k \in DOMAIN own :
                 ~IsDict(own[k]) => k \in DOMAIN Top.config /\ Top.config[k] = own[k]

\* the root a returns after a -> b -> c, all three setting k to a string
C1_Witness ==
    /\ Running("return") /\ Len(frames) = 1
    /\ hist.loaded = <<"a", "b", "c">>
    /\ Len(Top.got) = 1
    /\ \A f \in {"a", "b", "c"} :
         "k" \in DOMAIN files[f].doc /\ files[f].doc["k"] = VStr(f)
    /\ Top.config["k"] = VStr("a")

---------------------------------------------------------------------------
(* C2 *)

\* C2: when a call returns, its includes were loaded in list order and
\* folded left to right from the empty document, and a key whose last
\* declaring include gives it a non-mapping value, and which the file itself
\* does not set, has that include's value in the result.
C2_LaterIncludesOverride ==
    Running("return") =>
        LET got == Top.got
            own == Own(Top.resolved_path)
        IN  /\ Len(got) = Len(Top.includes)
            /\ \A n \in 1..Len(got) : got[n].path = Top.includes[n].v
            /\ Top.base_config = FoldLeft(EmptyDoc, got)
            /\ \A j \in 1..Len(got) : \A k \in DOMAIN got[j].doc :
                 ( /\ ~IsDict(got[j].doc[k])
                   /\ \A l \in (j + 1)..Len(got) : k \notin DOMAIN got[l].doc
                   /\ k \notin DOMAIN own )
                 => k \in DOMAIN Top.config /\ Top.config[k] = got[j].doc[k]

\* a lists [b, c], both set k to a string, a does not: c's value comes out
C2_Witness ==
    /\ Running("return") /\ Len(frames) = 1
    /\ Len(Top.got) = 2
    /\ Top.got[1].path = "b" /\ Top.got[2].path = "c"
    /\ "k" \in DOMAIN Top.got[1].doc /\ Top.got[1].doc["k"] = VStr("b")
    /\ "k" \in DOMAIN Top.got[2].doc /\ Top.got[2].doc["k"] = VStr("c")
    /\ "k" \notin DOMAIN files["a"].doc
    /\ Top.config["k"] = VStr("c")

---------------------------------------------------------------------------
(* C3 *)

\* C3: every root call comes to an end; the call stack never holds more
\* activations than there are files, plus the one being entered; and when
\* all files the walk can come to are well formed and one of them includes
\* itself through a chain of any length, the call ends in CircularInclude.
C3_TerminatesAndDetectsCycles ==
    /\ <>Finished
    /\ [](Len(frames) <= Cardinality(FileNames) + 1)
    /\ []((Finished /\ AllWellFormed /\ CycleReachable)
             => outcome.kind = CircularInclude)

\* the chain a -> b -> c -> a ended the call in CircularInclude
C3_Witness ==
    /\ Finished /\ AllWellFormed /\ CycleReachable
    /\ outcome.kind = CircularInclude
    /\ hist.raised.chain = <<"a", "b", "c">>
    /\ hist.raised.path = "a"

---------------------------------------------------------------------------
(* C4 *)

\* C4: CircularInclude is raised only by a call whose file is the file of
\* one of the calls below it on the call stack; when no file the walk can
\* come to includes itself, CircularInclude is never raised, however often
\* a file is loaded; and the include stack of a call holds only files of
\* that call and of the calls below it, never one pushed by a sibling.
C4_DiamondsAreNotCycles ==
    /\ hist.raised.kind = CircularInclude =>
         \E n \in 1..Len(hist.raised.chain) : hist.raised.chain[n] = hist.raised.path
    /\ ~CycleReachable => hist.raised.kind # CircularInclude
    /\ \A n \in 1..Len(frames) : \A m \in 1..Len(frames[n].include_stack) :
         frames[n].include_stack[m] \in {frames[j].resolved_path : j \in 1..n}

\* the diamond a -> [b, c], b -> d, c -> d returned, d loaded twice, and
\* d's key is in the result
C4_Witness ==
    /\ outcome.kind = "returned"
    /\ hist.loaded = <<"a", "b", "d", "c", "d">>
    /\ files["d"].doc = ("k" :> VStr("d"))
    /\ "k" \notin DOMAIN files["a"].doc
    /\ "k" \notin DOMAIN files["b"].doc
    /\ "k" \notin DOMAIN files["c"].doc
    /\ outcome.value = ("k" :> VStr("d"))

---------------------------------------------------------------------------
(* C5 *)

\* the text str() gives for the values the env sections of the model hold
StringForm(value) ==
    CASE value.t = "str"     -> value.v
      [] value = VInt(1)     -> "1"
      [] value = VBool(TRUE) -> "True"
      [] value = VNull       -> "None"

\* C5: after a root call that returned a document with an env section,
\* every variable that was set before the call has the value it had, every
\* key of the section that was not set is set to the string form of its
\* value, and no other variable has been set.
C5_EnvironmentPrecedence ==
    (outcome.kind = "returned" /\ "env" \in DOMAIN outcome.value) =>
        /\ IsDict(outcome.value["env"])
        /\ LET section == outcome.value["env"].v
           IN  /\ \A x \in DOMAIN hist.env0 :
                    x \in DOMAIN environ /\ environ[x] = hist.env0[x]
               /\ \A x \in DOMAIN section \ DOMAIN hist.env0 :
                    x \in DOMAIN environ /\ environ[x] = StringForm(section[x])
               /\ DOMAIN environ = DOMAIN hist.env0 \cup DOMAIN section

\* X was set by the shell and stays; Y was not and becomes "True"
C5_Witness ==
    /\ outcome.kind = "returned"
    /\ "env" \in DOMAIN outcome.value
    /\ outcome.value["env"] = VDict(("X" :> VInt(1)) @@ ("Y" :> VBool(TRUE)))
    /\ hist.env0 = ("X" :> "shell")
    /\ environ = ("X" :> "shell") @@ ("Y" :> "True")

---------------------------------------------------------------------------
(* C6 *)

\* the required key path p is absent from doc: some segment meets a value
\* that is not a mapping or a mapping without it
SegmentsOf(p) ==
    LET dots == {n \in 1..Len(p) : p[n] = DOT}
        \* the position of the j-th dot (0 before the first, Len + 1 after the last)
        At(j) == IF j = 0 THEN 0
                 ELSE IF j > Cardinality(dots) THEN Len(p) + 1
                 ELSE CHOOSE n \in dots : Cardinality({m \in dots : m < n}) = j - 1
    IN  [j \in 1..(Cardinality(dots) + 1) |->
            IF At(j) - At(j - 1) = 2 THEN p[At(j - 1) + 1] ELSE ""]

RECURSIVE ValueAt(_, _, _)
\* the value the first n segments lead to (when each step is a lookup)
ValueAt(doc, segs, n) ==
    IF n = 0 THEN VDict(doc) ELSE ValueAt(doc, segs, n - 1).v[segs[n]]

PathAbsent(doc, p) ==
    LET segs == SegmentsOf(p)
        StepOk(n) == /\ IsDict(ValueAt(doc, segs, n - 1))
                     /\ segs[n] \in DOMAIN ValueAt(doc, segs, n - 1).v
    IN  \E n \in 1..Len(segs) : (\A m \in 1..(n - 1) : StepOk(m)) /\ ~StepOk(n)

\* C6: the environment is written, and required keys are validated, only in
\* a step of the outermost call, after its finally clause, when every one of
\* its includes has been loaded and merged; each happens at most once per
\* root load; the calls for includes carry no required keys; a load that
\* fails before the root-only part leaves the environment as it was; and a
\* root call that returns has every required path in the merged document it
\* returns.
C6_RootOnlyPostProcessing ==
    /\ [][ ( \/ environ' # environ
             \/ hist'.seeded # hist.seeded
             \/ hist'.validated # hist.validated )
           => ( /\ Len(frames) = 1
                /\ exc = "none"
                /\ frames[1].pc \in {"env", "validate"}
                /\ frames[1].i > Len(frames[1].includes)
                /\ Len(frames[1].got) = Len(frames[1].includes) ) ]_vars
    /\ [](hist.seeded <= 1 /\ hist.validated <= 1)
    /\ [](\A n \in 2..Len(frames) : frames[n].required_keys = ReqNone)
    /\ [](hist.raised.kind \notin {"none", MissingRequiredKeys} => environ = hist.env0)
    /\ []((outcome.kind = "returned" /\ args.required_keys.some) =>
            \A n \in 1..Len(args.required_keys.keys) :
                ~PathAbsent(outcome.value, args.required_keys.keys[n]))

\* k.b and env.X were required; a sets no k, its include b supplies k.b;
\* the environment was seeded once and the keys validated once
C6_Witness ==
    /\ outcome.kind = "returned"
    /\ args.required_keys = ReqList(<<<<"k", DOT, "b">>, <<"env", DOT, "X">>>>)
    /\ "k" \notin DOMAIN files["a"].doc
    /\ hist.loaded = <<"a", "b">>
    /\ hist.seeded = 1 /\ hist.validated = 1
    /\ environ # hist.env0

---------------------------------------------------------------------------
(* C7 *)

\* C7: the validator reports exactly the paths of its list that are absent
\* from the document, in the order of the list, and raises exactly when
\* there is one.
C7_ValidatorReportsAllMissing ==
    (pure.op = "validate" /\ pure.pc = "done") =>
        LET Absent_(p) == PathAbsent(pure.a, p)
        IN  /\ pure.result = SelectSeq(pure.b, Absent_)
            /\ pure.raised <=> (\E n \in 1..Len(pure.b) : Absent_(pure.b[n]))

\* k is a string: "m" is found, "k.m" runs through a non-mapping and "x" is
\* not there
C7_Witness ==
    /\ pure.op = "validate" /\ pure.pc = "done"
    /\ "k" \in DOMAIN pure.a /\ pure.a["k"] = VStr("base")
    /\ "m" \in DOMAIN pure.a
    /\ pure.b = << <<"k", DOT, "m">>, <<"m">> >>
    /\ pure.raised
    /\ pure.result = << <<"k", DOT, "m">> >>

---------------------------------------------------------------------------
(* C8 *)

\* C8: no document a load_config call returns, to an including call or to
\* the caller of the root call, has the key loaden_include.
C8_IncludeKeyRemoved ==
    /\ Running("return") => "loaden_include" \notin DOMAIN Top.config
    /\ outcome.kind = "returned" => "loaden_include" \notin DOMAIN outcome.value

\* a lists its includes, b holds nothing but its include directive (a
\* string), and the root returned
C8_Witness ==
    /\ outcome.kind = "returned"
    /\ hist.loaded = <<"a", "b", "c">>
    /\ files["a"].doc["loaden_include"] = VList(<<VStr("b")>>)
    /\ files["b"].doc = ("loaden_include" :> VStr("c"))

---------------------------------------------------------------------------
(* C9 *)

\* C9: a root call returns a document or fails with one of the five
\* documented error kinds.
C9_OnlyDocumentedErrors ==
    Finished => outcome.kind \in {"returned"} \cup DocumentedErrors

---------------------------------------------------------------------------
(* C10 *)

\* C10: deep_merge(base, overlay) has the union of the keys; a key of one
\* side only keeps its value; a key of both whose values are both mappings
\* holds their merge, by the same rule; every other key of the overlay holds
\* the overlay's value. It gives a result for any two documents.
C10_DeepMergeRule ==
    (pure.op = "merge" /\ pure.pc = "done") =>
        IsMergeOf(pure.result, pure.a, pure.b)

\* mappings on both sides two levels down, where the overlay's null replaces
\* the base's string; m is in the base only and a list replaces a mapping
C10_Witness ==
    /\ pure.op = "merge" /\ pure.pc = "done"
    /\ pure.a = ("k" :> VDict(("k" :> VDict("k" :> VStr("base")))
                               @@ ("m" :> VStr("base"))))
                @@ ("m" :> VStr("base"))
    /\ pure.b = ("k" :> VDict("k" :> VDict("k" :> VNull)))
    /\ pure.result = ("k" :> VDict(("k" :> VDict("k" :> VNull))
                                    @@ ("m" :> VStr("base"))))
                     @@ ("m" :> VStr("base"))

---------------------------------------------------------------------------
(* C11 *)

RECURSIVE NewWhereBoth(_, _, _, _, _)
\* the object r is not one of the objects that existed before the call, and
\* neither is the object it holds for a key on which a and b both held a
\* mapping, at every depth
NewWhereBoth(heap, heap0, r, a, b) ==
    /\ r > Len(heap0)
    /\ \A k \in DOMAIN heap0[a] \cap DOMAIN heap0[b] :
         (IsRef(heap0[a][k]) /\ IsRef(heap0[b][k])) =>
            /\ IsRef(heap[r][k])
            /\ NewWhereBoth(heap, heap0, heap[r][k].v, heap0[a][k].v, heap0[b][k].v)

\* C11: when deep_merge(A, B) has returned, every dict object that existed
\* before the call holds what it held then, so A and B equal their pre-call
\* snapshots at every nesting level; the object returned is a new one, at the
\* top level and at every level where both inputs had a mapping.
C11_InputsNotMutated ==
    (pure.op = "heap_merge" /\ pure.pc = "done") =>
        /\ \A addr \in 1..Len(pure.heap0) : pure.heap[addr] = pure.heap0[addr]
        /\ Deref(pure.heap, pure.a) = Deref(pure.heap0, pure.a)
        /\ Deref(pure.heap, pure.b) = Deref(pure.heap0, pure.b)
        /\ NewWhereBoth(pure.heap, pure.heap0, pure.result, pure.a, pure.b)

\* both inputs hold mappings under k and under k.k, with different entries
\* below; the call has built three new objects
C11_Witness ==
    /\ pure.op = "heap_merge" /\ pure.pc = "done"
    /\ Deref(pure.heap0, pure.a) =
         ("k" :> VDict(("k" :> VDict("k" :> VStr("base"))) @@ ("m" :> VStr("base"))))
    /\ Deref(pure.heap0, pure.b) =
         ("k" :> VDict("k" :> VDict("m" :> VStr("overlay"))))
    /\ Len(pure.heap) = Len(pure.heap0) + 3
    /\ Deref(pure.heap, pure.result) =
         ("k" :> VDict(("k" :> VDict(("k" :> VStr("base")) @@ ("m" :> VStr("overlay"))))
                        @@ ("m" :> VStr("base"))))

\* the heap model and the value model of deep_merge give the same document
HeapMergeAgrees ==
    (pure.op = "heap_merge" /\ pure.pc = "done") =>
        Deref(pure.heap, pure.result)
          = deep_merge(Deref(pure.heap0, pure.a), Deref(pure.heap0, pure.b))

---------------------------------------------------------------------------
(* C12 *)

\* the files of the calls from the root down to the n-th activation
ChainTo(n) == [j \in 1..n |-> frames[j].resolved_path]

NoRepeat(seq) == \A m, n \in 1..Len(seq) : seq[m] = seq[n] => m = n

\* the activation is between its push (line 88) and its finally clause
InTry(f) == f.pc \in {"parse", "includes", "loop", "call", "finally"}

\* C12: the include stack of every activation holds no path twice; from its
\* push to its finally clause it is exactly the root-to-current path of the
\* walk, and before the push and after the finally clause the path down to
\* its caller; and whenever a call is left, by return or by an exception,
\* its include stack equals the stack it was handed.
C12_StackIsAncestorChain ==
    /\ \A n \in 1..Len(frames) :
         /\ NoRepeat(frames[n].include_stack)
         /\ frames[n].include_stack =
              IF InTry(frames[n]) THEN ChainTo(n) ELSE ChainTo(n - 1)
    /\ hist.exit.how # "none" => hist.exit.stack = hist.exit.stack0

\* c, two levels down, pushed its path, its include of a raised
\* CircularInclude, and c was left by that exception with the stack [a, b]
\* it was handed
C12_Witness ==
    /\ hist.exit.how = "raise"
    /\ hist.exit.path = "c"
    /\ hist.exit.stack0 = <<"a", "b">>
    /\ hist.exit.stack = <<"a", "b">>
    /\ exc = CircularInclude
    /\ Len(frames) = 2 /\ Top.pc = "finally"
    /\ hist.loaded = <<"a", "b", "c">>

---------------------------------------------------------------------------
(* C13 *)

\* C13: when the root call has failed with MissingRequiredKeys, the env
\* section of the document that was validated had been handled before: every
\* key of it that was not in the environment before the call is set to the
\* string form of its value, and stays so; when the call has failed with
\* NotFound, ParseError, InvalidShape or CircularInclude, the environment is
\* what it was before the call.
C13_SeedingSurvivesValidationFailure ==
    /\ (outcome.kind = MissingRequiredKeys /\ "env" \in DOMAIN hist.final) =>
         /\ IsDict(hist.final["env"])
         /\ hist.seeded = 1
         /\ \A x \in DOMAIN hist.final["env"].v \ DOMAIN hist.env0 :
              /\ x \in DOMAIN environ
              /\ environ[x] = StringForm(hist.final["env"].v[x])
    /\ (hist.validated = 1 /\ "env" \in DOMAIN hist.final) => hist.seeded = 1
    /\ outcome.kind \in {FileNotFoundError, YAMLError, InvalidShape, CircularInclude}
         => environ = hist.env0

\* the root call failed with MissingRequiredKeys and Y, which the shell had
\* not set, is "True" in the environment
C13_Witness ==
    /\ outcome.kind = MissingRequiredKeys
    /\ "Y" \notin DOMAIN hist.env0
    /\ "Y" \in DOMAIN environ /\ environ["Y"] = "True"
    /\ environ # hist.env0

===========================================================================
